---- MODULE Spec2Model ----
(***************************************************************************)
(* Workflow designer: the canvas graph (components, ports, connections),   *)
(* its validation, execution order and run, and the backend connection     *)
(* checks and workflow engine.                                             *)
(*                                                                         *)
(* Frontend: src/src/frontend/ui/canvas.py, frontend/components/*.py       *)
(* Backend : src/src/backend/core/workflow_engine.py,                      *)
(*           src/src/backend/components/*.py, src/src/core/*.py            *)
(*                                                                         *)
(* Not modelled: rendering, positions, property values and the numerical   *)
(* payloads components compute (files read, tensors, plots).  A payload    *)
(* is represented only by whether it exists.                               *)
(***************************************************************************)
EXTENDS Integers, Sequences, FiniteSets, Bags, TLC

\* ------------------------------------------------------------------------
\* Bounds
\* ------------------------------------------------------------------------
\* Most components created in one behaviour (each gets a fresh uuid4 id).
MaxComponents == 3
\* Most connection lines in WorkflowCanvas.connections at one time.
MaxConnections == 2

ComponentIds == 1..MaxComponents

\* ------------------------------------------------------------------------
\* Frontend component classes and their ports
\* ------------------------------------------------------------------------
FrontendTypes == {"FileComponent", "CNNComponent", "GraphComponent"}

\* add_input_port calls of each frontend class constructor.
FrontendInputPorts(t) ==
    CASE t = "FileComponent"  -> {}
      [] t = "CNNComponent"   -> {"input"}
      [] t = "GraphComponent" -> {"input"}

\* add_output_port calls of each frontend class constructor.
FrontendOutputPorts(t) ==
    CASE t = "FileComponent"  -> {"output"}
      [] t = "CNNComponent"   -> {"output", "metrics"}
      [] t = "GraphComponent" -> {}

\* port_type argument given to add_input_port / add_output_port.
FrontendPortType(name) == IF name = "metrics" THEN "metrics" ELSE "data"

\* A Port object: the component it belongs to (Port.parent(), an object of
\* class t with id c), its name, its port_type and its direction.
Port(c, t, n, out) ==
    [comp |-> c, parent_type |-> t, name |-> n, port_type |-> FrontendPortType(n),
     is_output |-> out]

\* The Port objects a component of class t with id c creates.
PortsOf(c, t) ==
    {Port(c, t, n, FALSE) : n \in FrontendInputPorts(t)} \cup
    {Port(c, t, n, TRUE)  : n \in FrontendOutputPorts(t)}

\* WorkflowComponent.get_required_inputs: every input port name.
get_required_inputs(t) == FrontendInputPorts(t)

VARIABLES
    components,          \* WorkflowCanvas.components: dict in insertion order,
                         \*   a sequence of [id, type]
    connections,         \* WorkflowCanvas.connections: set of ConnectionLine
                         \*   objects, a bag of [start_port, end_port]
    current_connection,  \* the line being dragged: its start port, or None
    modified,            \* WorkflowCanvas._modified
    created,             \* number of components constructed so far; the
                         \*   n-th one carries id n (uuid4: never reused)
    last,                \* the most recent call observed and what it returned
    backend_component,   \* a backend component (BaseComponent subclass
                         \*   instance) driven directly, or None
    workflow_file,       \* the document save_to_file wrote, or None
    current_data,        \* ids of the GraphComponents whose _current_data
                         \*   is not None
    undo_stack,          \* WorkflowCanvas.undo_stack: list of saved states
    redo_stack           \* WorkflowCanvas.redo_stack

canvasVars == <<components, connections, current_connection, modified, created,
               current_data>>
vars == <<components, connections, current_connection, modified, created, last,
         backend_component, workflow_file, current_data, undo_stack, redo_stack>>
undoVars == <<undo_stack, redo_stack>>

None == [none |-> TRUE]
NoCall == [op |-> "none"]

\* ------------------------------------------------------------------------
\* Helpers over the canvas state
\* ------------------------------------------------------------------------
Range(s) == {s[i] : i \in 1..Len(s)}

\* Ids that are keys of the components dict.
IdsOf(comps) == {comps[i].id : i \in 1..Len(comps)}

\* The class of the component stored under id c.
TypeOf(comps, c) == (CHOOSE r \in Range(comps) : r.id = c).type

\* Every Port object of every component on the canvas (what itemAt can hit).
CanvasPorts(comps) == UNION {PortsOf(r.id, r.type) : r \in Range(comps)}

\* The distinct [start_port, end_port] pairs present in the connection set.
Conns(conns) == BagToSet(conns)

\* Remove the sequence element with the given id (del self.components[id]).
RECURSIVE DelId(_, _)
DelId(comps, c) ==
    IF comps = <<>> THEN <<>>
    ELSE IF Head(comps).id = c THEN DelId(Tail(comps), c)
    ELSE <<Head(comps)>> \o DelId(Tail(comps), c)

\* The connection lines that neither start nor end at component c.
WithoutComponent(conns, c) ==
    [e \in {x \in DOMAIN conns : x.start_port.comp # c /\ x.end_port.comp # c}
        |-> conns[e]]

\* ------------------------------------------------------------------------
\* Validation (WorkflowCanvas.validate_workflow, _has_cycles)
\* ------------------------------------------------------------------------

\* Components a connection starting at c leads to (conn.end_port.parent()).
Successors(conns, c) ==
    {x.end_port.comp : x \in {y \in Conns(conns) : y.start_port.comp = c}}

\* visit(component) of _has_cycles: depth-first search with the shared sets
\* visited and path; returns whether a cycle was met and the visited set.
RECURSIVE visit(_, _, _, _)
RECURSIVE visit_each(_, _, _, _)
visit(conns, c, visited, path) ==
    IF c \in path THEN [found |-> TRUE, visited |-> visited]
    ELSE IF c \in visited THEN [found |-> FALSE, visited |-> visited]
    ELSE visit_each(conns, Successors(conns, c), visited \cup {c}, path \cup {c})

\* The loop "for conn in self.connections" inside visit.
visit_each(conns, todo, visited, path) ==
    IF todo = {} THEN [found |-> FALSE, visited |-> visited]
    ELSE LET s == CHOOSE x \in todo : TRUE
             r == visit(conns, s, visited, path)
         IN IF r.found THEN r
            ELSE visit_each(conns, todo \ {s}, r.visited, path)

\* any(visit(comp) for comp in self.components.values())
RECURSIVE has_cycles_from(_, _, _)
has_cycles_from(conns, comps, visited) ==
    IF comps = <<>> THEN FALSE
    ELSE LET r == visit(conns, Head(comps).id, visited, {})
         IN IF r.found THEN TRUE
            ELSE has_cycles_from(conns, Tail(comps), r.visited)

_has_cycles(comps, conns) == has_cycles_from(conns, comps, {})

\* A set as a sequence, in some fixed order.
RECURSIVE SetToSeq(_)
SetToSeq(S) ==
    IF S = {} THEN <<>>
    ELSE LET x == CHOOSE y \in S : TRUE IN <<x>> \o SetToSeq(S \ {x})

\* The "Required input ... not connected" issues of one component.
RECURSIVE required_issues(_, _, _)
required_issues(conns, c, names) ==
    IF names = <<>> THEN <<>>
    ELSE (IF \E x \in Conns(conns) :
                x.end_port.comp = c /\ x.end_port.name = Head(names)
          THEN <<>>
          ELSE <<[kind |-> "required_input", comp |-> c, port |-> Head(names)]>>)
         \o required_issues(conns, c, Tail(names))

RECURSIVE component_issues(_, _)
component_issues(comps, conns) ==
    IF comps = <<>> THEN <<>>
    ELSE required_issues(conns, Head(comps).id,
                         SetToSeq(get_required_inputs(Head(comps).type)))
         \o component_issues(Tail(comps), conns)

\* validate_workflow(): the issue list.
validate_workflow(comps, conns) ==
    component_issues(comps, conns) \o
    (IF _has_cycles(comps, conns) THEN <<[kind |-> "cycle"]>> ELSE <<>>)

\* ------------------------------------------------------------------------
\* Execution order (WorkflowCanvas._get_execution_order)
\* ------------------------------------------------------------------------
Raise == [status |-> "raise"]

\* Orders in which a Python set of the component objects ids may be
\* iterated (the order depends on object hashes, not on the program).
Ranks(ids) == {f \in [ids -> 1..Cardinality(ids)] :
                 \A a, b \in ids : a # b => f[a] # f[b]}

\* The members of S in iteration order.
RECURSIVE IterOrder(_, _)
IterOrder(S, rank) ==
    IF S = {} THEN <<>>
    ELSE LET x == CHOOSE y \in S : \A z \in S : rank[y] <= rank[z]
         IN <<x>> \o IterOrder(S \ {x}, rank)

\* in_degree[target] += 1, once for every connection line.
InDegree(conns, c) ==
    LET into == {x \in Conns(conns) : x.end_port.comp = c}
        RECURSIVE Sum(_)
        Sum(S) == IF S = {} THEN 0
                  ELSE LET x == CHOOSE y \in S : TRUE
                       IN CopiesIn(x, conns) + Sum(S \ {x})
    IN Sum(into)

\* graph[source].add(target): graph[source] is a set of components.
GraphOf(conns, c) == Successors(conns, c)

\* queue = [comp for comp, degree in in_degree.items() if degree == 0]
RECURSIVE ZeroDegree(_, _)
ZeroDegree(comps, indeg) ==
    IF comps = <<>> THEN <<>>
    ELSE (IF indeg[Head(comps).id] = 0 THEN <<Head(comps).id>> ELSE <<>>)
         \o ZeroDegree(Tail(comps), indeg)

\* "for dependent in graph[current]": one decrement for each member of the
\* set, the member is queued when its in-degree becomes zero.
RECURSIVE process_dependents(_, _, _)
process_dependents(deps, queue, indeg) ==
    IF deps = <<>> THEN [queue |-> queue, indeg |-> indeg]
    ELSE LET d == Head(deps)
             n == indeg[d] - 1
         IN process_dependents(Tail(deps),
                IF n = 0 THEN Append(queue, d) ELSE queue,
                [indeg EXCEPT ![d] = n])

\* "while queue": pop the front, append it to the order, process dependents.
RECURSIVE process_queue(_, _, _, _, _)
process_queue(conns, rank, queue, indeg, order) ==
    IF queue = <<>> THEN order
    ELSE LET current == Head(queue)
             r == process_dependents(IterOrder(GraphOf(conns, current), rank),
                                     Tail(queue), indeg)
         IN process_queue(conns, rank, r.queue, r.indeg, Append(order, current))

_get_execution_order(comps, conns, rank) ==
    LET ids == IdsOf(comps)
    IN IF \E x \in Conns(conns) :
             x.start_port.comp \notin ids \/ x.end_port.comp \notin ids
       THEN Raise                       \* KeyError on graph[source] / in_degree[target]
       ELSE LET indeg == [c \in ids |-> InDegree(conns, c)]
                queue == ZeroDegree(comps, indeg)
            IN IF queue = <<>> THEN Raise      \* "no valid starting point found"
               ELSE LET order == process_queue(conns, rank, queue, indeg, <<>>)
                    IN IF Len(order) # Len(comps) THEN Raise
                       ELSE [status |-> "ok", order |-> order]

TypeOK ==
    /\ components \in Seq([id : ComponentIds, type : FrontendTypes])
    /\ IsABag(connections)
    /\ modified \in BOOLEAN
    /\ created \in 0..MaxComponents

Init ==
    /\ components = <<>>
    /\ connections = EmptyBag
    /\ current_connection = None
    /\ modified = FALSE
    /\ created = 0
    /\ last = NoCall
    /\ backend_component = None
    /\ workflow_file = None
    /\ current_data = {}
    /\ undo_stack = <<>>
    /\ redo_stack = <<>>

\* ------------------------------------------------------------------------
\* Connection checks of the frontend
\* ------------------------------------------------------------------------

\* WorkflowCanvas.can_connect(port1, port2).
can_connect(conns, port1, port2) ==
    IF port1.is_output = port2.is_output THEN FALSE
    ELSE IF port1.comp = port2.comp THEN FALSE
    ELSE LET input_port == IF ~port2.is_output THEN port2 ELSE port1
         IN IF \E x \in Conns(conns) : x.end_port = input_port THEN FALSE
            ELSE \/ port1.port_type = port2.port_type
                 \/ port1.port_type = "any"
                 \/ port2.port_type = "any"

\* self.output_ports.get(name) or self.input_ports.get(name) on a frontend
\* component [id, type]: the Port object, or None.
PortNamed(comp, name) ==
    IF name \in FrontendOutputPorts(comp.type) THEN Port(comp.id, comp.type, name, TRUE)
    ELSE IF name \in FrontendInputPorts(comp.type) THEN Port(comp.id, comp.type, name, FALSE)
    ELSE None

\* WorkflowComponent.validate_connection(self, other, my_port, other_port).
validate_connection(self, other, my_port, other_port) ==
    LET my_port_obj == PortNamed(self, my_port)
        other_port_obj == PortNamed(other, other_port)
    IN IF my_port_obj = None \/ other_port_obj = None THEN FALSE
       ELSE IF my_port_obj.is_output = other_port_obj.is_output THEN FALSE
       ELSE IF self = other THEN FALSE
       ELSE \/ my_port_obj.port_type = other_port_obj.port_type
            \/ my_port_obj.port_type = "any"
            \/ other_port_obj.port_type = "any"

\* ------------------------------------------------------------------------
\* Editing operations of WorkflowCanvas
\* ------------------------------------------------------------------------

\* self.components[component.id] = component: the value of an existing key
\* is replaced where it stands, a new key goes to the end of the dict.
dict_setitem(comps, component) ==
    IF component.id \in IdsOf(comps)
    THEN [i \in 1..Len(comps) |->
            IF comps[i].id = component.id THEN component ELSE comps[i]]
    ELSE Append(comps, component)

\* WorkflowCanvas.max_undo_steps.
max_undo_steps == 50

\* save_state(): the components by id with their type (position and
\* properties play no part here) and one entry per complete connection.
save_state(comps, conns) == [components |-> comps, connections |-> conns]

\* push_undo_state(): the append, the clearing of the redo stack and
\* modified = True are all inside "if len(self.undo_stack) >=
\* self.max_undo_steps"; below that length the call changes nothing.
push_undo_state(undo, redo, state) ==
    IF Len(undo) >= max_undo_steps
    THEN [undo_stack |-> Append(Tail(undo), state), redo_stack |-> <<>>, pushed |-> TRUE]
    ELSE [undo_stack |-> undo, redo_stack |-> redo, pushed |-> FALSE]

\* dropEvent -> create_component -> add_component(component).  The new
\* component carries a fresh uuid4 id (WorkflowComponent.__init__).
add_component(t) ==
    /\ created < MaxComponents
    /\ created' = created + 1
    /\ components' = dict_setitem(components, [id |-> created + 1, type |-> t])
    /\ modified' = TRUE
    /\ last' = NoCall
    /\ UNCHANGED <<connections, current_connection>>
    /\ UNCHANGED <<backend_component, workflow_file>>
    /\ LET pushed == push_undo_state(undo_stack, redo_stack,
                                      save_state(components, connections))
       IN undo_stack' = pushed.undo_stack /\ redo_stack' = pushed.redo_stack
    /\ UNCHANGED current_data

\* remove_connection(connection): one ConnectionLine object leaves the set.
remove_connection(conn) ==
    /\ BagIn(conn, connections)
    /\ connections' = connections (-) SetToBag({conn})
    /\ modified' = TRUE
    /\ last' = NoCall
    /\ UNCHANGED <<components, current_connection, created>>
    /\ UNCHANGED <<backend_component, workflow_file>>
    /\ UNCHANGED undoVars
    /\ UNCHANGED current_data

\* remove_component(component): returns at once when the id is no key of
\* components; otherwise every connection that starts or ends at the
\* component is removed, then the component itself.
remove_component(c) ==
    /\ IF c \notin IdsOf(components)
       THEN UNCHANGED <<components, connections, modified>>
       ELSE /\ connections' = WithoutComponent(connections, c)
            /\ components' = DelId(components, c)
            /\ modified' = TRUE
    /\ last' = NoCall
    /\ UNCHANGED <<current_connection, created>>
    /\ UNCHANGED <<backend_component, workflow_file>>
    /\ UNCHANGED undoVars
    /\ current_data' = current_data \ {c}

\* mousePressEvent on a Port -> start_connection(port).
start_connection(port) ==
    /\ port \in CanvasPorts(components)
    /\ current_connection' = port
    /\ last' = NoCall
    /\ UNCHANGED <<components, connections, modified, created>>
    /\ UNCHANGED <<backend_component, workflow_file>>
    /\ UNCHANGED undoVars
    /\ UNCHANGED current_data

\* add_connection(connection): self.connections.add(connection) comes first
\* and nothing after it removes the line again.
add_connection(conns, conn) == conns (+) SetToBag({conn})

\* The data flow of add_connection(connection), after the line is added.
\* From a CNNComponent to a GraphComponent: hasattr(source_comp, '_metrics')
\* is true of every CNNComponent (__init__ sets it), so target_comp.execute
\* is called with a dict and GraphComponent.execute stores it in
\* _current_data.  Otherwise source_comp.execute(inputs={}) is called, which
\* succeeds only for a FileComponent whose file can be read (file_read), and
\* on success target_comp.execute({"input": data}) stores the data in a
\* GraphComponent.
add_connection_data(data, conn, file_read) ==
    LET source_comp == conn.start_port
        target_comp == conn.end_port
    IN IF /\ source_comp.parent_type = "CNNComponent"
          /\ target_comp.parent_type = "GraphComponent"
       THEN data \cup {target_comp.comp}
       ELSE IF /\ source_comp.parent_type = "FileComponent"
               /\ file_read
               /\ target_comp.parent_type = "GraphComponent"
       THEN data \cup {target_comp.comp}
       ELSE data

\* mouseReleaseEvent on a Port -> finish_connection(end_port) ->
\* add_connection(self.current_connection).
finish_connection(end_port) ==
    /\ current_connection # None
    /\ end_port \in CanvasPorts(components)
    /\ BagCardinality(connections) < MaxConnections
    /\ connections' = add_connection(connections,
                        [start_port |-> current_connection, end_port |-> end_port])
    /\ current_connection' = None
    /\ last' = NoCall
    /\ UNCHANGED <<components, modified, created>>
    /\ UNCHANGED <<backend_component, workflow_file>>
    /\ UNCHANGED undoVars
    /\ \E file_read \in BOOLEAN :
          current_data' = add_connection_data(current_data,
                             [start_port |-> current_connection, end_port |-> end_port],
                             file_read)

\* mouseReleaseEvent away from any Port: the dragged line is dropped.
cancel_connection ==
    /\ current_connection # None
    /\ current_connection' = None
    /\ last' = NoCall
    /\ UNCHANGED <<components, connections, modified, created>>
    /\ UNCHANGED <<backend_component, workflow_file>>
    /\ UNCHANGED undoVars
    /\ UNCHANGED current_data

\* clear(save_state=True), from MainWindow.new_workflow.
clear ==
    /\ components' = <<>>
    /\ connections' = EmptyBag
    /\ current_connection' = None
    /\ modified' = FALSE
    /\ last' = NoCall
    /\ UNCHANGED created
    /\ UNCHANGED <<backend_component, workflow_file>>
    /\ LET pushed == push_undo_state(undo_stack, redo_stack,
                                      save_state(components, connections))
       IN undo_stack' = pushed.undo_stack /\ redo_stack' = pushed.redo_stack
    /\ current_data' = {}

\* delete_selected_items() with the components sel_comps and the
\* connection lines sel_conns selected: push_undo_state(), then
\* remove_component / remove_connection for each selected item.
delete_selected_items(sel_comps, sel_conns) ==
    /\ sel_comps \subseteq IdsOf(components)
    /\ sel_conns \subseteq Conns(connections)
    /\ (sel_comps # {} \/ sel_conns # {})
    /\ LET pushed == push_undo_state(undo_stack, redo_stack,
                                     save_state(components, connections))
       IN undo_stack' = pushed.undo_stack /\ redo_stack' = pushed.redo_stack
    /\ components' = SelectSeq(components, LAMBDA comp : comp.id \notin sel_comps)
    /\ connections' =
          LET kept == connections (-) SetToBag(sel_conns)
          IN [x \in {y \in BagToSet(kept) : /\ y.start_port.comp \notin sel_comps
                                            /\ y.end_port.comp \notin sel_comps}
                |-> kept[x]]
    /\ current_data' = current_data \ sel_comps
    /\ modified' = TRUE
    /\ last' = NoCall
    /\ UNCHANGED <<current_connection, created>>
    /\ UNCHANGED <<backend_component, workflow_file>>

\* The canvas as one record.
Canvas ==
    [components |-> components, connections |-> connections,
     current_connection |-> current_connection, modified |-> modified,
     created |-> created, current_data |-> current_data,
     undo_stack |-> undo_stack, redo_stack |-> redo_stack]

\* restore_connection(conn_data): the components are looked up under the
\* saved ids, the ports by name among the output ports of the start
\* component and the input ports of the end component; the line is added
\* to self.connections directly (add_connection is not called).
restore_connection(comps, conns, conn_data) ==
    LET start_id == conn_data.start_port.comp
        end_id == conn_data.end_port.comp
    IN IF start_id \notin IdsOf(comps) \/ end_id \notin IdsOf(comps) THEN conns
       ELSE IF \/ conn_data.start_port.name \notin FrontendOutputPorts(TypeOf(comps, start_id))
               \/ conn_data.end_port.name \notin FrontendInputPorts(TypeOf(comps, end_id))
       THEN conns
       ELSE conns (+) SetToBag({[start_port |-> Port(start_id, TypeOf(comps, start_id),
                                                     conn_data.start_port.name, TRUE),
                                 end_port |-> Port(end_id, TypeOf(comps, end_id),
                                                   conn_data.end_port.name, FALSE)]})

RECURSIVE restore_connections(_, _, _)
restore_connections(comps, conns, saved) ==
    IF saved = EmptyBag THEN conns
    ELSE LET conn_data == CHOOSE x \in BagToSet(saved) : TRUE
         IN restore_connections(comps, restore_connection(comps, conns, conn_data),
                                saved (-) SetToBag({conn_data}))

\* restore_state(state): clear(save_state=False), then every saved
\* component is created again by create_component, which gives it a new
\* uuid4 id (the saved id is not assigned), and added with
\* add_component(component, save_state=False); then the connections.
restore_state(self, state) ==
    LET n == Len(state.components)
        comps == [i \in 1..n |-> [id |-> self.created + i,
                                  type |-> state.components[i].type]]
    IN [self EXCEPT !.components = comps,
                    !.connections = restore_connections(comps, EmptyBag, state.connections),
                    !.current_connection = None,
                    !.modified = (n > 0),
                    !.created = self.created + n,
                    !.current_data = {}]

\* undo(): returns at once when the undo stack is empty.
undo(self) ==
    IF self.undo_stack = <<>> THEN self
    ELSE LET current_state == save_state(self.components, self.connections)
             state == self.undo_stack[Len(self.undo_stack)]
         IN restore_state([self EXCEPT !.redo_stack = Append(@, current_state),
                                       !.undo_stack = SubSeq(@, 1, Len(@) - 1)],
                          state)

\* redo(): returns at once when the redo stack is empty.
redo(self) ==
    IF self.redo_stack = <<>> THEN self
    ELSE LET current_state == save_state(self.components, self.connections)
             state == self.redo_stack[Len(self.redo_stack)]
         IN restore_state([self EXCEPT !.undo_stack = Append(@, current_state),
                                       !.redo_stack = SubSeq(@, 1, Len(@) - 1)],
                          state)

\* Ctrl+Z -> undo().
Undo ==
    /\ LET self == undo(Canvas)
       IN /\ components' = self.components
          /\ connections' = self.connections
          /\ current_connection' = self.current_connection
          /\ modified' = self.modified
          /\ created' = self.created
          /\ current_data' = self.current_data
          /\ undo_stack' = self.undo_stack
          /\ redo_stack' = self.redo_stack
    /\ last' = [op |-> "undo", restored |-> undo_stack # <<>>]
    /\ UNCHANGED <<backend_component, workflow_file>>

\* Ctrl+Y / Ctrl+Shift+Z -> redo().
Redo ==
    /\ LET self == redo(Canvas)
       IN /\ components' = self.components
          /\ connections' = self.connections
          /\ current_connection' = self.current_connection
          /\ modified' = self.modified
          /\ created' = self.created
          /\ current_data' = self.current_data
          /\ undo_stack' = self.undo_stack
          /\ redo_stack' = self.redo_stack
    /\ last' = [op |-> "redo", restored |-> redo_stack # <<>>]
    /\ UNCHANGED <<backend_component, workflow_file>>

\* ------------------------------------------------------------------------
\* Running the workflow (WorkflowCanvas.execute_workflow)
\* ------------------------------------------------------------------------

\* _get_component_inputs(component): the first incoming connection calls
\* source_component.get_outputs(), a method no frontend component class
\* defines (FileComponent has get_output, the others nothing), so the call
\* raises AttributeError; without incoming connections the result is {}.
_get_component_inputs(conns, c) ==
    IF \E x \in Conns(conns) : x.end_port.comp = c
    THEN Raise
    ELSE [status |-> "ok", inputs |-> {}]

\* component.execute(inputs), by class; inputs is the set of bound port
\* names and payload_ok says whether reading the file / training the model
\* / drawing the plot succeeds.
execute(t, inputs, payload_ok) ==
    CASE t = "FileComponent" ->
            IF payload_ok THEN "success" ELSE "error"
      [] t = "CNNComponent" ->
            IF "input" \notin inputs THEN "error"       \* "No input data provided"
            ELSE IF payload_ok THEN "success" ELSE "error"
      [] t = "GraphComponent" ->
            IF "input" \notin inputs THEN "error"       \* "No input data"
            ELSE IF payload_ok THEN "success" ELSE "error"

\* _execute_component(component): any exception becomes an error result.
_execute_component(comps, conns, c, payload_ok) ==
    LET got == _get_component_inputs(conns, c)
    IN IF got.status = "raise" THEN "error"
       ELSE execute(TypeOf(comps, c), got.inputs, payload_ok)

EmptyDict == [x \in {} |-> "success"]

\* The loop of execute_workflow over ordered_components.  cancel_at is the
\* loop index (from 0) at which progress.wasCanceled() first answers True.
\* run is what has happened so far: the components executed, what
\* _get_component_inputs gave for each, the status each returned, the
\* results dict.
RECURSIVE run_loop(_, _, _, _, _, _, _)
run_loop(comps, conns, order, i, cancel_at, payload_ok, run) ==
    IF i >= Len(order) THEN [run EXCEPT !.ret = run.results]
    ELSE IF i >= cancel_at                                            \* break
         THEN [run EXCEPT !.ret = run.results, !.canceled = TRUE]
    ELSE LET c == order[i + 1]
             st == _execute_component(comps, conns, c, payload_ok[c])
             ran == [run EXCEPT !.executed = Append(@, c),
                                !.inputs = [x \in DOMAIN @ \cup {c} |->
                                              IF x = c
                                              THEN _get_component_inputs(conns, c)
                                              ELSE @[x]],
                                !.status = [x \in DOMAIN @ \cup {c} |->
                                              IF x = c THEN st ELSE @[x]]]
         IN IF st = "error"
            \* raise RuntimeError -> except -> QMessageBox.critical; return {}
            THEN [ran EXCEPT !.ret = EmptyDict, !.dialog = "critical"]
            ELSE run_loop(comps, conns, order, i + 1, cancel_at, payload_ok,
                          [ran EXCEPT !.results =
                              [x \in DOMAIN @ \cup {c} |->
                                 IF x = c THEN st ELSE @[x]]])

NoRun ==
    [op |-> "execute_workflow", order |-> <<>>, executed |-> <<>>, inputs |-> EmptyDict,
     status |-> EmptyDict, results |-> EmptyDict, ret |-> EmptyDict, dialog |-> "none",
     canceled |-> FALSE, raised |-> FALSE]

\* A run that sees the cancel request but goes on through the whole order.
execute_ignoring_cancel(comps, conns, rank, cancel_at, payload_ok) ==
    LET ord == _get_execution_order(comps, conns, rank)
    IN IF ord.status = "raise"
       THEN [NoRun EXCEPT !.dialog = "critical"]
       ELSE [run_loop(comps, conns, ord.order, 0, Len(ord.order), payload_ok,
                      [NoRun EXCEPT !.order = ord.order])
                EXCEPT !.canceled = cancel_at < Len(ord.order)]

\* execute_workflow() once validation has passed: ordered_components, then
\* the loop.
execute_valid_workflow(comps, conns, rank, cancel_at, payload_ok) ==
    LET ord == _get_execution_order(comps, conns, rank)
    IN IF ord.status = "raise"
       THEN [NoRun EXCEPT !.dialog = "critical"]      \* except: return {}
       ELSE run_loop(comps, conns, ord.order, 0, cancel_at, payload_ok,
                     [NoRun EXCEPT !.order = ord.order])

\* The three calls below are commands issued between mouse gestures: they
\* neither read nor write current_connection, so they are observed only
\* while no line is being dragged.

\* A call of validate_workflow().
ValidateWorkflow ==
    /\ current_connection = None
    /\ last' = [op |-> "validate_workflow",
                issues |-> validate_workflow(components, connections)]
    /\ UNCHANGED canvasVars
    /\ UNCHANGED <<backend_component, workflow_file>>
    /\ UNCHANGED undoVars

\* A call of _get_execution_order().
GetExecutionOrder ==
    /\ current_connection = None
    /\ \E rank \in Ranks(IdsOf(components)) :
          last' = [op |-> "_get_execution_order",
                   result |-> _get_execution_order(components, connections, rank)]
    /\ UNCHANGED canvasVars
    /\ UNCHANGED <<backend_component, workflow_file>>
    /\ UNCHANGED undoVars

\* A call of execute_workflow().
ExecuteWorkflow ==
    /\ current_connection = None
    /\ IF validate_workflow(components, connections) # <<>>
       THEN last' = [NoRun EXCEPT !.dialog = "warning"]      \* return {}
       ELSE \E rank \in Ranks(IdsOf(components)),
               cancel_at \in 0..Len(components),
               payload_ok \in [IdsOf(components) -> BOOLEAN] :
               last' = execute_valid_workflow(components, connections, rank,
                                              cancel_at, payload_ok)
    /\ UNCHANGED canvasVars
    /\ UNCHANGED <<backend_component, workflow_file>>
    /\ UNCHANGED undoVars

Next ==
    \/ \E t \in FrontendTypes : add_component(t)
    \/ \E c \in ComponentIds : remove_component(c)
    \/ \E conn \in Conns(connections) : remove_connection(conn)
    \/ \E p \in CanvasPorts(components) : start_connection(p)
    \/ \E p \in CanvasPorts(components) : finish_connection(p)
    \/ cancel_connection
    \/ clear
    \/ ValidateWorkflow
    \/ GetExecutionOrder
    \/ ExecuteWorkflow

Spec == Init /\ [][Next]_vars

\* ------------------------------------------------------------------------
\* Backend components (BaseComponent subclasses) and their connection check
\* ------------------------------------------------------------------------
BackendClasses == {"backend.CNNComponent", "backend.OutputComponent"}

\* metadata.input_ports of each backend class: port name -> type.
metadata_input_ports(cls) ==
    CASE cls = "backend.CNNComponent" ->
            ("images" :> "tensor")
      [] cls = "backend.OutputComponent" ->
            ("predictions" :> "tensor") @@ ("confidence" :> "tensor") @@
            ("filenames" :> "list")

\* metadata.output_ports of each backend class: port name -> type.
metadata_output_ports(cls) ==
    CASE cls = "backend.CNNComponent" ->
            ("predictions" :> "tensor") @@ ("confidence" :> "tensor")
      [] cls = "backend.OutputComponent" ->
            ("confusion_matrix_path" :> "str") @@ ("confidence_plot_path" :> "str")

\* ports.get(name, {}).get("type"): the type, or None for an unknown name.
PortTypeOrNone(ports, name) ==
    IF name \in DOMAIN ports THEN ports[name] ELSE "None"

\* BaseComponent.can_connect_to(self, other, my_port, other_port); self and
\* other are backend components [id, cls].
can_connect_to(self, other, my_port, other_port) ==
    IF my_port \in DOMAIN metadata_output_ports(self.cls)
    THEN LET my_port_type == metadata_output_ports(self.cls)[my_port]
             other_port_type == PortTypeOrNone(metadata_input_ports(other.cls), other_port)
         IN my_port_type = other_port_type \/ my_port_type = "any" \/ other_port_type = "any"
    ELSE IF my_port \in DOMAIN metadata_input_ports(self.cls)
    THEN LET my_port_type == metadata_input_ports(self.cls)[my_port]
             other_port_type == PortTypeOrNone(metadata_output_ports(other.cls), other_port)
         IN my_port_type = other_port_type \/ my_port_type = "any" \/ other_port_type = "any"
    ELSE FALSE

\* ComponentBridge.validate_connection(source_id, target_id, source_port,
\* target_port); pairs is component_pairs: frontend id -> backend component.
bridge_validate_connection(pairs, source_id, target_id, source_port, target_port) ==
    IF source_id \notin DOMAIN pairs \/ target_id \notin DOMAIN pairs THEN FALSE
    ELSE can_connect_to(pairs[source_id], pairs[target_id], source_port, target_port)

\* ------------------------------------------------------------------------
\* Backend workflow engine (WorkflowEngine.execute)
\* ------------------------------------------------------------------------

\* queue.put(component) on an asyncio.Queue: put is a coroutine function and
\* the call is not awaited, so the queue is left as it was.
queue_put(queue, component) == queue

\* The loop "for component, degree in in_degree.items(): if degree == 0:
\* queue.put(component)".
RECURSIVE put_zero_degree(_, _, _)
put_zero_degree(comps, in_degree, queue) ==
    IF comps = <<>> THEN queue
    ELSE put_zero_degree(Tail(comps), in_degree,
            IF in_degree[Head(comps).id] = 0
            THEN queue_put(queue, Head(comps).id) ELSE queue)

\* Number of list entries (source, target) with the given target:
\* len(node.dependencies).
RECURSIVE CountTarget(_, _)
CountTarget(conns, c) ==
    IF conns = <<>> THEN 0
    ELSE (IF Head(conns)[2] = c THEN 1 ELSE 0) + CountTarget(Tail(conns), c)

\* WorkflowEngine._topological_sort(graph).  Inside the while loop
\* queue.get() would yield a coroutine object, which is no key of graph.
_topological_sort(comps, conns) ==
    LET in_degree == [c \in IdsOf(comps) |-> CountTarget(conns, c)]
        queue == put_zero_degree(comps, in_degree, <<>>)
    IN IF queue # <<>> THEN [status |-> "raise", error |-> "KeyError"]
       ELSE IF 0 # Len(comps)                  \* "Workflow contains cycles"
       THEN [status |-> "raise", error |-> "ValueError"]
       ELSE [status |-> "ok", order |-> <<>>]

\* WorkflowEngine._build_execution_graph: graph[source] / graph[target] of a
\* connection whose component is not in components raises KeyError.
_build_execution_graph(comps, conns) ==
    IF \E i \in 1..Len(conns) :
          conns[i][1] \notin IdsOf(comps) \/ conns[i][2] \notin IdsOf(comps)
    THEN Raise
    ELSE [status |-> "ok"]

\* The loop of execute over execution_order: each component gets an entry in
\* results, the value process() returned or the error record of the except
\* branch; outcome[c] says which.
RECURSIVE engine_loop(_, _, _)
engine_loop(order, outcome, run) ==
    IF order = <<>> THEN [run EXCEPT !.ret = run.results]
    ELSE LET c == Head(order)
         IN engine_loop(Tail(order), outcome,
               [run EXCEPT !.executed = Append(@, c),
                           !.results = [x \in DOMAIN @ \cup {c} |->
                                          IF x = c THEN outcome[c] ELSE @[x]]])

\* WorkflowEngine.execute(components, connections): an exception of the
\* graph building or of the sort is logged and raised again.
engine_execute(comps, conns, outcome) ==
    LET none == [executed |-> <<>>, results |-> EmptyDict, ret |-> EmptyDict,
                 raised |-> FALSE]
    IN IF _build_execution_graph(comps, conns).status = "raise"
       THEN [none EXCEPT !.raised = TRUE]
       ELSE LET sorted == _topological_sort(comps, conns)
            IN IF sorted.status = "raise"
               THEN [none EXCEPT !.raised = TRUE]
               ELSE engine_loop(sorted.order, outcome, none)

\* get_required_inputs() of each backend class, in list order.
backend_required_inputs(cls) ==
    CASE cls = "backend.CNNComponent" -> <<"images">>
      [] cls = "backend.OutputComponent" -> <<"predictions", "confidence">>

\* The component loop of WorkflowEngine.validate_workflow.  The test of a
\* required input unpacks every connection as (source, target, inputs); the
\* (source, target) tuples that execute and _build_execution_graph take make
\* that unpacking raise ValueError, which the outer except turns into one
\* "Validation error" issue that ends the call.  Without connections every
\* required input is reported.  No backend class has a validate method.
RECURSIVE engine_component_issues(_, _, _)
engine_component_issues(comps, conns, issues) ==
    IF comps = <<>> THEN issues
    ELSE LET component == Head(comps)
             names == backend_required_inputs(component.cls)
         IN IF names # <<>> /\ conns # <<>>
            THEN Append(issues, [kind |-> "validation_error"])
            ELSE engine_component_issues(Tail(comps), conns,
                    issues \o [i \in 1..Len(names) |->
                                 [kind |-> "required_input", comp |-> component.id,
                                  port |-> names[i]]])

\* WorkflowEngine.validate_workflow(components, connections): the issue list.
engine_validate_workflow(comps, conns) ==
    IF _build_execution_graph(comps, conns).status = "raise"
    THEN <<[kind |-> "validation_error"]>>
    ELSE LET sorted == _topological_sort(comps, conns)
         IN IF sorted.status = "raise" /\ sorted.error # "ValueError"
            THEN <<[kind |-> "validation_error"]>>
            ELSE engine_component_issues(comps, conns,
                    IF sorted.status = "raise" THEN <<[kind |-> "cycle"]>> ELSE <<>>)

\* ------------------------------------------------------------------------
\* Direct calls of the checks and of the engine
\* ------------------------------------------------------------------------
\* Most components handed to one call.
MaxCallComponents == 2

CallIds == 1..MaxCallComponents

BackendPortNames ==
    UNION {DOMAIN metadata_input_ports(cls) \cup DOMAIN metadata_output_ports(cls) :
             cls \in BackendClasses} \cup {"undeclared"}

FrontendPortNames == {"input", "output", "metrics", "undeclared"}

\* A canvas as the editing operations leave it: MaxCallComponents
\* components and at most one connection, from the first to the second.
InitCalls ==
    /\ \E ts \in [CallIds -> FrontendTypes] :
          components = [i \in CallIds |-> [id |-> i, type |-> ts[i]]]
    /\ connections \in
          {EmptyBag} \cup
          {SetToBag({[start_port |-> p, end_port |-> q]}) :
              p \in PortsOf(components[1].id, components[1].type),
              q \in PortsOf(components[2].id, components[2].type)}
    /\ current_connection = None
    /\ modified = TRUE
    /\ created = MaxCallComponents
    /\ last = NoCall
    /\ backend_component = None
    /\ workflow_file = None
    /\ undo_stack = <<>>
    /\ redo_stack = <<>>
    /\ \E file_read \in BOOLEAN :
          current_data = IF connections = EmptyBag THEN {}
                         ELSE add_connection_data({}, CHOOSE conn \in Conns(connections) : TRUE,
                                                  file_read)

\* A call of WorkflowCanvas.can_connect(port1, port2).
CanConnect ==
    /\ last = NoCall
    /\ \E port1, port2 \in CanvasPorts(components) :
          last' = [op |-> "can_connect", port1 |-> port1, port2 |-> port2,
                   ret |-> can_connect(connections, port1, port2)]
    /\ UNCHANGED canvasVars
    /\ UNCHANGED <<backend_component, workflow_file>>
    /\ UNCHANGED undoVars

\* A call of WorkflowComponent.validate_connection on two canvas components.
ValidateConnection ==
    /\ last = NoCall
    /\ \E self, other \in Range(components), my_port, other_port \in FrontendPortNames :
          last' = [op |-> "validate_connection", self |-> self, other |-> other,
                   my_port |-> my_port, other_port |-> other_port,
                   ret |-> validate_connection(self, other, my_port, other_port)]
    /\ UNCHANGED canvasVars
    /\ UNCHANGED <<backend_component, workflow_file>>
    /\ UNCHANGED undoVars

\* A call of BaseComponent.can_connect_to on backend components.
CanConnectTo ==
    /\ last = NoCall
    /\ \E cls \in [CallIds -> BackendClasses], a, b \in CallIds,
          my_port, other_port \in BackendPortNames :
          LET self == [id |-> a, cls |-> cls[a]]
              other == [id |-> b, cls |-> cls[b]]
          IN last' = [op |-> "can_connect_to", self |-> self, other |-> other,
                      my_port |-> my_port, other_port |-> other_port,
                      ret |-> can_connect_to(self, other, my_port, other_port)]
    /\ UNCHANGED canvasVars
    /\ UNCHANGED <<backend_component, workflow_file>>
    /\ UNCHANGED undoVars

\* A call of ComponentBridge.validate_connection; the registered pairs are
\* part of the input.
BridgeValidateConnection ==
    /\ last = NoCall
    /\ \E registered \in SUBSET CallIds :
       \E cls \in [registered -> BackendClasses], source_id, target_id \in CallIds,
          source_port, target_port \in BackendPortNames :
          LET pairs == [i \in registered |-> [id |-> i, cls |-> cls[i]]]
          IN last' = [op |-> "bridge.validate_connection", pairs |-> pairs,
                      source_id |-> source_id, target_id |-> target_id,
                      source_port |-> source_port, target_port |-> target_port,
                      ret |-> bridge_validate_connection(pairs, source_id, target_id,
                                                         source_port, target_port)]
    /\ UNCHANGED canvasVars
    /\ UNCHANGED <<backend_component, workflow_file>>
    /\ UNCHANGED undoVars

\* The dicts of backend components a call may be given: insertion orders of
\* distinct components.
BackendComponentDicts ==
    {<<>>} \cup
    {<<[id |-> i, cls |-> c]>> : i \in CallIds, c \in BackendClasses} \cup
    {<<[id |-> e[1], cls |-> c], [id |-> e[2], cls |-> d]>> :
        e \in {f \in CallIds \X CallIds : f[1] # f[2]},
        c \in BackendClasses, d \in BackendClasses}

\* The connection lists a call may be given: (source, target) tuples.
BackendConnectionLists ==
    {<<>>} \cup {<<e>> : e \in CallIds \X CallIds}
           \cup {<<e, f>> : e \in CallIds \X CallIds, f \in CallIds \X CallIds}

\* A call of WorkflowEngine.execute(components, connections).
EngineExecute ==
    /\ last = NoCall
    /\ \E comps \in BackendComponentDicts, conns \in BackendConnectionLists,
          outcome \in [CallIds -> {"success", "None", "error"}] :
          last' = [op |-> "engine.execute", components |-> comps,
                   connections |-> conns] @@ engine_execute(comps, conns, outcome)
    /\ UNCHANGED canvasVars
    /\ UNCHANGED <<backend_component, workflow_file>>
    /\ UNCHANGED undoVars

\* A call of WorkflowEngine.validate_workflow(components, connections).
EngineValidateWorkflow ==
    /\ last = NoCall
    /\ \E comps \in BackendComponentDicts, conns \in BackendConnectionLists :
          last' = [op |-> "engine.validate_workflow", components |-> comps,
                   connections |-> conns,
                   issues |-> engine_validate_workflow(comps, conns)]
    /\ UNCHANGED canvasVars
    /\ UNCHANGED <<backend_component, workflow_file>>
    /\ UNCHANGED undoVars

\* A call of WorkflowCanvas.add_component(component, save_state) with a
\* component whose id (set by load_state, or the component is on the canvas
\* already) is a key of components.  The method has no return value and its
\* try/except lets no exception out: raised is FALSE on every path.
AddComponent ==
    /\ last = NoCall
    /\ \E id \in CallIds, t \in FrontendTypes :
          /\ components' = dict_setitem(components, [id |-> id, type |-> t])
          /\ current_data' = current_data \ {id}
          /\ last' = [op |-> "add_component", component |-> [id |-> id, type |-> t],
                      before |-> components, raised |-> FALSE]
    /\ modified' = TRUE
    /\ UNCHANGED <<connections, current_connection, created>>
    /\ UNCHANGED <<backend_component, workflow_file>>
    /\ LET pushed == push_undo_state(undo_stack, redo_stack,
                                      save_state(components, connections))
       IN undo_stack' = pushed.undo_stack /\ redo_stack' = pushed.redo_stack

\* WorkflowCanvas.save_to_file: the document written.  components is a
\* dict keyed by component id holding the type (position and properties
\* play no part here); connections is a list with one entry
\* {'start': {...}, 'end': {...}} per ConnectionLine.
connection_entry(conn) ==
    [start |-> [component |-> conn.start_port.comp, port |-> conn.start_port.name],
     end |-> [component |-> conn.end_port.comp, port |-> conn.end_port.name]]

save_to_file(comps, conns) ==
    [components |-> [i \in 1..Len(comps) |-> [key |-> comps[i].id, type |-> comps[i].type]],
     connections |->
        [e \in {connection_entry(conn) : conn \in Conns(conns)} |->
            CopiesIn(CHOOSE conn \in Conns(conns) : connection_entry(conn) = e, conns)]]

\* MainWindow.save_workflow(filename) -> self.canvas.save_to_file(filename).
SaveWorkflow ==
    /\ last = NoCall
    /\ workflow_file' = save_to_file(components, connections)
    /\ modified' = FALSE
    /\ last' = [op |-> "save_workflow", ret |-> TRUE]
    /\ UNCHANGED <<components, connections, current_connection, created,
                   backend_component>>
    /\ UNCHANGED current_data
    /\ UNCHANGED undoVars

\* MainWindow.new_workflow() after a save: nothing is unsaved, so
\* check_unsaved_changes() is True and the canvas is cleared.
NewWorkflow ==
    /\ last.op = "save_workflow"
    /\ components' = <<>>
    /\ connections' = EmptyBag
    /\ current_connection' = None
    /\ modified' = FALSE
    /\ last' = [op |-> "new_workflow"]
    /\ UNCHANGED <<created, backend_component, workflow_file>>
    /\ LET pushed == push_undo_state(undo_stack, redo_stack,
                                      save_state(components, connections))
       IN undo_stack' = pushed.undo_stack /\ redo_stack' = pushed.redo_stack
    /\ current_data' = {}

\* MainWindow.open_workflow(filename) on the saved file: it calls
\* self.canvas.load_from_file(filename), and WorkflowCanvas has no such
\* attribute (load_from_file is defined on MainWindow): AttributeError
\* leaves open_workflow before anything is read or changed.
OpenWorkflow ==
    /\ last.op \in {"save_workflow", "new_workflow"}
    /\ workflow_file # None
    /\ last' = [op |-> "open_workflow", raised |-> TRUE, ret |-> FALSE]
    /\ UNCHANGED <<canvasVars, backend_component, workflow_file>>
    /\ UNCHANGED undoVars

\* MainWindow.load_from_file(filename) on the saved file: its first
\* statement, self.clear(save_state=False), raises AttributeError
\* (MainWindow has no clear); the except branch returns False.
LoadFromFile ==
    /\ last.op \in {"save_workflow", "new_workflow"}
    /\ workflow_file # None
    /\ last' = [op |-> "load_from_file", raised |-> FALSE, ret |-> FALSE]
    /\ UNCHANGED <<canvasVars, backend_component, workflow_file>>
    /\ UNCHANGED undoVars

\* The canvas queries, called on the drawn canvas.
CallValidateWorkflow == last = NoCall /\ ValidateWorkflow

CallGetExecutionOrder == last = NoCall /\ GetExecutionOrder

CallExecuteWorkflow == last = NoCall /\ ExecuteWorkflow

\* No call changes the canvas, so each behaviour makes one call, on the
\* canvas and with the arguments it draws.
NextCalls ==
    \/ CanConnect
    \/ ValidateConnection
    \/ CanConnectTo
    \/ BridgeValidateConnection
    \/ EngineExecute
    \/ EngineValidateWorkflow
    \/ AddComponent
    \/ SaveWorkflow
    \/ NewWorkflow
    \/ OpenWorkflow
    \/ LoadFromFile
    \/ CallValidateWorkflow
    \/ CallGetExecutionOrder
    \/ CallExecuteWorkflow

SpecCalls == InitCalls /\ [][NextCalls]_vars

\* Editing a drawn canvas with the operations that record undo states, and
\* undo / redo.
NextUndo ==
    \/ \E t \in FrontendTypes : add_component(t)
    \/ clear
    \/ \E sel_comps \in SUBSET IdsOf(components),
          sel_conns \in SUBSET Conns(connections) :
          delete_selected_items(sel_comps, sel_conns)
    \/ Undo
    \/ Redo

SpecUndo == InitCalls /\ [][NextUndo]_vars

\* A drawn canvas is saved and then changed once: a component or a
\* connection is added or removed right after the save.
NextSave ==
    \/ workflow_file = None /\ SaveWorkflow
    \/ last.op = "save_workflow" /\ \E t \in FrontendTypes : add_component(t)
    \/ last.op = "save_workflow" /\ \E c \in IdsOf(components) : remove_component(c)
    \/ last.op = "save_workflow" /\ \E conn \in Conns(connections) : remove_connection(conn)
    \/ last.op = "save_workflow" /\ \E p \in CanvasPorts(components) : start_connection(p)
    \/ workflow_file # None /\ \E p \in CanvasPorts(components) : finish_connection(p)

SpecSave == InitCalls /\ [][NextSave]_vars

\* ------------------------------------------------------------------------
\* One backend component (BaseComponent and its subclasses CNNComponent,
\* OutputComponent): ports, status, error and progress
\* ------------------------------------------------------------------------

\* What an input port can hold: None, a well-formed tensor (of one of two
\* batch sizes), or a value the subclass checks reject (not a tensor, or a
\* tensor of the wrong shape).
InputValues == {"None", "tensor1", "tensor2", "object"}

IsTensor(v) == v \in {"tensor1", "tensor2"}

\* self._error: None, or the message set_error recorded (its text and the
\* port it names).
NoError == [msg |-> "None", port |-> "None"]

\* A dict without keys.
EmptyPorts == [n \in {} |-> "None"]

\* d[k] = v on a dict.
port_set(d, k, v) == [x \in DOMAIN d \cup {k} |-> IF x = k THEN v ELSE d[x]]

\* BaseComponent.set_error(error_message).
set_error(self, msg, port) ==
    [self EXCEPT !.error = [msg |-> msg, port |-> port], !.status = "error"]

\* BaseComponent.__init__ followed by the subclass __init__: the port dicts
\* start empty (only metadata names the ports).  CNNComponent ends with
\* _initialize_model(), which sets status "ready" or, when loading the
\* network raises, records an error; model_loaded says which.
new_component(cls, model_loaded) ==
    LET base == [cls |-> cls, input_ports |-> EmptyPorts, output_ports |-> EmptyPorts,
                 status |-> "initialized", error |-> NoError, progress |-> 0,
                 model |-> "None"]
    IN IF cls = "backend.CNNComponent"
       THEN IF model_loaded
            THEN [base EXCEPT !.model = "resnet18", !.status = "ready"]
            ELSE set_error(base, "Failed to initialize model", "None")
       ELSE base

\* A set_input that stores the value under any name and never fails.
set_input_any_port(self, port_name, value) ==
    [self |-> [self EXCEPT !.input_ports = port_set(@, port_name, value)],
     ret |-> TRUE, statuses |-> <<>>]

\* BaseComponent.set_input(port_name, value): the new component and the
\* value returned.
set_input(self, port_name, value) ==
    IF port_name \notin DOMAIN metadata_input_ports(self.cls)
    THEN [self |-> set_error(self, "Invalid input port", port_name), ret |-> FALSE,
          statuses |-> <<"error">>]
    ELSE [self |-> [self EXCEPT !.input_ports = port_set(@, port_name, value)],
          ret |-> TRUE, statuses |-> <<>>]

\* The loop of BaseComponent.validate_inputs: the first required port, in
\* list order, that raises ValueError, with its message; NoError if none.
RECURSIVE first_invalid_input(_, _)
first_invalid_input(self, names) ==
    IF names = <<>> THEN NoError
    ELSE IF Head(names) \notin DOMAIN self.input_ports
    THEN [msg |-> "Input validation failed: Required input port missing",
          port |-> Head(names)]
    ELSE IF self.input_ports[Head(names)] = "None"
    THEN [msg |-> "Input validation failed: Required input port not connected",
          port |-> Head(names)]
    ELSE first_invalid_input(self, Tail(names))

\* A base check that only tests whether the required names are keys of
\* input_ports, not whether they are bound.
base_validate_presence_only(self) ==
    IF \A i \in 1..Len(backend_required_inputs(self.cls)) :
          backend_required_inputs(self.cls)[i] \in DOMAIN self.input_ports
    THEN [self |-> self, ret |-> TRUE, statuses |-> <<>>]
    ELSE [self |-> set_error(self, "Input validation failed: Required input port missing",
                             "None"),
          ret |-> FALSE, statuses |-> <<"error">>]

\* BaseComponent.validate_inputs().
base_validate_inputs(self) ==
    LET bad == first_invalid_input(self, backend_required_inputs(self.cls))
    IN IF bad = NoError
       THEN [self |-> self, ret |-> TRUE, statuses |-> <<>>]
       ELSE [self |-> set_error(self, bad.msg, bad.port), ret |-> FALSE,
             statuses |-> <<"error">>]

\* CNNComponent.validate_inputs() and OutputComponent.validate_inputs():
\* the base check, then the checks of the values.
validate_inputs(self) ==
    LET base == base_validate_inputs(self)
        failed(msg) == [self |-> set_error(self, msg, "None"), ret |-> FALSE,
                        statuses |-> <<"error">>]
    IN IF ~base.ret THEN base
       ELSE IF self.cls = "backend.CNNComponent"
       THEN IF ~IsTensor(self.input_ports["images"])
            THEN failed("Input validation failed: Images must be a torch.Tensor")
            ELSE base
       ELSE IF ~IsTensor(self.input_ports["predictions"])
            THEN failed("Input validation failed: Predictions must be a torch.Tensor")
            ELSE IF ~IsTensor(self.input_ports["confidence"])
            THEN failed("Input validation failed: Confidence scores must be a torch.Tensor")
            ELSE IF self.input_ports["predictions"] # self.input_ports["confidence"]
            THEN failed("Input validation failed: Predictions and confidence must have same batch size")
            ELSE base

\* An except branch that returns None without recording the failure.
process_failed_silently(self, statuses) ==
    [self |-> self, ret |-> "None", statuses |-> statuses]

\* The except branch of process: set_error("Processing failed: ..."),
\* return None.
process_failed(self, statuses) ==
    [self |-> set_error(self, "Processing failed", "None"), ret |-> "None",
     statuses |-> Append(statuses, "error")]

\* Where a call of process may raise: nowhere, or at one of the steps.
CNNFailurePoints == {"none", "forward", "result"}

OutputFailurePoints == {"none", "confusion_matrix", "confidence_plot", "save_results"}

\* CNNComponent.process().  The forward pass raises when the model is None
\* (after cleanup, or when loading failed) or when fail_at says so; building
\* the returned dict indexes the ten class_names with the predicted class
\* and raises after both outputs are stored and the status is "completed".
cnn_process(self, fail_at) ==
    LET started == [self EXCEPT !.status = "processing", !.progress = 0]
        valid == validate_inputs(started)
    IN IF ~valid.ret
       THEN [self |-> valid.self, ret |-> "None",
             statuses |-> <<"processing">> \o valid.statuses]
       ELSE IF started.model = "None" \/ fail_at = "forward"
       THEN process_failed(started, <<"processing">>)
       ELSE LET stored == [started EXCEPT
                             !.output_ports = port_set(port_set(@, "predictions", "tensor"),
                                                       "confidence", "tensor"),
                             !.progress = 100,
                             !.status = "completed"]
            IN IF fail_at = "result"
               THEN process_failed(stored, <<"processing", "completed">>)
               ELSE [self |-> stored, ret |-> "success",
                     statuses |-> <<"processing", "completed">>]

\* OutputComponent.process().  Each of the three steps may raise; saving the
\* results raises in any case when input_ports["filenames"] is None (zip
\* over None).
output_process(self, fail_at) ==
    LET valid == validate_inputs(self)
        started == [self EXCEPT !.status = "processing", !.progress = 0]
        step1 == [started EXCEPT !.status = "Creating confusion matrix", !.progress = 25]
        done1 == [step1 EXCEPT !.output_ports = port_set(@, "confusion_matrix_path", "str")]
        step2 == [done1 EXCEPT !.status = "Creating confidence distribution", !.progress = 50]
        done2 == [step2 EXCEPT !.output_ports = port_set(@, "confidence_plot_path", "str")]
        step3 == [done2 EXCEPT !.status = "Saving prediction results", !.progress = 75]
        done3 == [step3 EXCEPT !.status = "completed", !.progress = 100]
        trace1 == <<"processing", "Creating confusion matrix">>
        trace2 == Append(trace1, "Creating confidence distribution")
        trace3 == Append(trace2, "Saving prediction results")
        filenames_none == /\ "filenames" \in DOMAIN self.input_ports
                          /\ self.input_ports["filenames"] = "None"
    IN IF ~valid.ret
       THEN [self |-> valid.self, ret |-> "None", statuses |-> valid.statuses]
       ELSE IF fail_at = "confusion_matrix" THEN process_failed(step1, trace1)
       ELSE IF fail_at = "confidence_plot" THEN process_failed(step2, trace2)
       ELSE IF fail_at = "save_results" \/ filenames_none THEN process_failed(step3, trace3)
       ELSE [self |-> done3, ret |-> "success", statuses |-> Append(trace3, "completed")]

\* BaseComponent.cleanup(), after the subclass part (CNNComponent drops its
\* model).
cleanup(self) ==
    [self |-> [self EXCEPT !.model = "None",
                           !.input_ports = EmptyPorts,
                           !.output_ports = EmptyPorts,
                           !.status = "cleaned"],
     ret |-> "None", statuses |-> <<"cleaned">>]

\* A reset that assigns progress, error and status but keeps the port dicts
\* as they are.
reset_keeps_ports(self) ==
    [self |-> [self EXCEPT !.progress = 0, !.error = NoError, !.status = "initialized"],
     ret |-> "None", statuses |-> <<"initialized">>]

\* BaseComponent.reset().
reset(self) ==
    [self |-> [self EXCEPT
                 !.input_ports = [n \in DOMAIN metadata_input_ports(self.cls) |-> "None"],
                 !.output_ports = [n \in DOMAIN metadata_output_ports(self.cls) |-> "None"],
                 !.progress = 0,
                 !.error = NoError,
                 !.status = "initialized"],
     ret |-> "None", statuses |-> <<"initialized">>]

\* The state after construction of one backend component.
InitComponent ==
    /\ components = <<>>
    /\ connections = EmptyBag
    /\ current_connection = None
    /\ modified = FALSE
    /\ created = 0
    /\ last = NoCall
    /\ workflow_file = None
    /\ current_data = {}
    /\ undo_stack = <<>>
    /\ redo_stack = <<>>
    /\ backend_component \in
          {new_component(cls, loaded) : cls \in BackendClasses, loaded \in BOOLEAN}

\* What a call leaves in last: result is [self, ret, statuses], statuses
\* being the values the call assigned to status, in order.
Observed(op, args, result) ==
    [op |-> op, args |-> args, ret |-> result.ret, statuses |-> result.statuses,
     before_status |-> backend_component.status]

SetInput ==
    /\ \E port_name \in BackendPortNames, value \in InputValues :
          LET result == set_input(backend_component, port_name, value)
          IN /\ backend_component' = result.self
             /\ last' = Observed("set_input", <<port_name, value>>, result)
    /\ UNCHANGED canvasVars
    /\ UNCHANGED workflow_file
    /\ UNCHANGED undoVars

ValidateInputs ==
    /\ backend_component' = validate_inputs(backend_component).self
    /\ last' = Observed("validate_inputs", <<>>, validate_inputs(backend_component))
    /\ UNCHANGED canvasVars
    /\ UNCHANGED workflow_file
    /\ UNCHANGED undoVars

\* process(self, fail_at) of the component's class.
process(self, fail_at) ==
    IF self.cls = "backend.CNNComponent"
    THEN cnn_process(self, fail_at)
    ELSE output_process(self, fail_at)

Process ==
    /\ \E fail_at \in IF backend_component.cls = "backend.CNNComponent"
                      THEN CNNFailurePoints ELSE OutputFailurePoints :
          LET result == process(backend_component, fail_at)
          IN /\ backend_component' = result.self
             /\ last' = Observed("process", <<>>, result)
    /\ UNCHANGED canvasVars
    /\ UNCHANGED workflow_file
    /\ UNCHANGED undoVars

Cleanup ==
    /\ backend_component' = cleanup(backend_component).self
    /\ last' = Observed("cleanup", <<>>, cleanup(backend_component))
    /\ UNCHANGED canvasVars
    /\ UNCHANGED workflow_file
    /\ UNCHANGED undoVars

Reset ==
    /\ backend_component' = reset(backend_component).self
    /\ last' = Observed("reset", <<>>, reset(backend_component))
    /\ UNCHANGED canvasVars
    /\ UNCHANGED workflow_file
    /\ UNCHANGED undoVars

NextComponent ==
    \/ SetInput
    \/ ValidateInputs
    \/ Process
    \/ Cleanup
    \/ Reset

SpecComponent == InitComponent /\ [][NextComponent]_vars

\* ------------------------------------------------------------------------
\* Properties
\* ------------------------------------------------------------------------

\* Components reachable from c along one or more connections.
RECURSIVE ReachClosure(_, _)
ReachClosure(conns, S) ==
    LET T == S \cup UNION {Successors(conns, x) : x \in S}
    IN IF T = S THEN S ELSE ReachClosure(conns, T)

ReachableFrom(conns, c) == ReachClosure(conns, Successors(conns, c))

\* The connections, read as a directed graph over components, have a cycle.
HasDirectedCycle(conns) ==
    \E x \in Conns(conns) : x.start_port.comp \in ReachableFrom(conns, x.start_port.comp)

\* Every connection joins components that are on the canvas.
ConnectionsAmongComponents ==
    \A x \in Conns(connections) :
        /\ x.start_port.comp \in IdsOf(components)
        /\ x.end_port.comp \in IdsOf(components)

\* Position of c in the sequence order (0 when absent).
IndexIn(order, c) ==
    IF \E i \in 1..Len(order) : order[i] = c
    THEN CHOOSE i \in 1..Len(order) : order[i] = c
    ELSE 0

\* order lists every component of the canvas exactly once and puts the
\* source of every connection before its target.
IsTopologicalOrder(order) ==
    /\ Len(order) = Len(components)
    /\ Range(order) = IdsOf(components)
    /\ \A x \in Conns(connections) :
          IndexIn(order, x.start_port.comp) < IndexIn(order, x.end_port.comp)

\* C1: for an acyclic workflow the execution-order computation returns an
\* order that holds every component exactly once with the source of every
\* connection before its target, and reports no cycle; parallel connections
\* between the same two components included.  Stated for workflows with at
\* least one component (the empty workflow is the case of C22).
C1_ExecutionOrderOfAcyclicWorkflow ==
    ( /\ last.op = "_get_execution_order"
      /\ components # <<>>
      /\ ConnectionsAmongComponents
      /\ ~HasDirectedCycle(connections) )
    => ( /\ last.result.status = "ok"
         /\ IsTopologicalOrder(last.result.order) )

\* The run that has just returned was over a graph that passed validation
\* and was not cancelled.
CompletedValidRun ==
    /\ last.op = "execute_workflow"
    /\ validate_workflow(components, connections) = <<>>
    /\ ~last.canceled

\* C3: in a run over a valid graph a failing component does not abort the
\* run: every component is still attempted, every executed component has
\* its own result (success or error) under its id in the returned map, and
\* the run returns without raising.
C3_FailureDoesNotAbortRun ==
    ( /\ CompletedValidRun
      /\ \E c \in DOMAIN last.status : last.status[c] = "error" )
    => ( /\ Range(last.executed) = IdsOf(components)
         /\ DOMAIN last.ret = IdsOf(components)
         /\ \A c \in DOMAIN last.status : last.ret[c] = last.status[c]
         /\ ~last.raised )

\* The canvas holds exactly the chain Loader -> Model -> Report:
\* a FileComponent, a CNNComponent and a GraphComponent joined output to
\* input.
IsChain(loader, model, report) ==
    /\ IdsOf(components) = {loader, model, report}
    /\ Len(components) = 3
    /\ TypeOf(components, loader) = "FileComponent"
    /\ TypeOf(components, model) = "CNNComponent"
    /\ TypeOf(components, report) = "GraphComponent"
    /\ connections = SetToBag({
          [start_port |-> Port(loader, "FileComponent", "output", TRUE),
           end_port |-> Port(model, "CNNComponent", "input", FALSE)],
          [start_port |-> Port(model, "CNNComponent", "output", TRUE),
           end_port |-> Port(report, "GraphComponent", "input", FALSE)]})

\* C4: in the chain Loader -> Model -> Report, when Loader succeeds and
\* Model fails the results are Loader = success, Model = error and
\* Report = error, and nothing is raised out of the run.
C4_ChainFailureCascades ==
    \A loader, model, report \in ComponentIds :
        ( /\ IsChain(loader, model, report)
          /\ last.op = "execute_workflow"
          /\ ~last.canceled
          /\ loader \in DOMAIN last.status /\ last.status[loader] = "success"
          /\ model \in DOMAIN last.status /\ last.status[model] = "error" )
        => ( /\ ~last.raised
             /\ DOMAIN last.ret = {loader, model, report}
             /\ last.ret[loader] = "success"
             /\ last.ret[model] = "error"
             /\ last.ret[report] = "error" )

\* Number of connection lines that end at port p.
FanIn(conns, p) ==
    LET into == {x \in Conns(conns) : x.end_port = p}
        RECURSIVE Sum(_)
        Sum(S) == IF S = {} THEN 0
                  ELSE LET x == CHOOSE y \in S : TRUE
                       IN CopiesIn(x, conns) + Sum(S \ {x})
    IN Sum(into)

\* C5: every input port is the end port of at most one connection.
C5_FanInAtMostOne ==
    \A p \in CanvasPorts(components) : ~p.is_output => FanIn(connections, p) <= 1

\* C6: the connection set is acyclic in every state the editing operations
\* reach (a connection that would close a cycle is rejected).
C6_ConnectionsAcyclic == ~HasDirectedCycle(connections)

\* C7: a connect attempt that fails a connection rule creates no connection
\* and leaves the graph as it was.
C7_RejectedConnectChangesNothing ==
    [][\A p \in CanvasPorts(components) :
          ( /\ current_connection # None
            /\ finish_connection(p)
            /\ ~can_connect(connections, current_connection, p) )
          => UNCHANGED <<components, connections>>]_vars

\* C10: every connection joins two ports of equal data type or with "any" on
\* one side.
C10_ConnectionTypesCompatible ==
    \A x \in Conns(connections) :
        \/ x.start_port.port_type = x.end_port.port_type
        \/ x.start_port.port_type = "any"
        \/ x.end_port.port_type = "any"

\* The (source, target) tuples, read as a directed graph, have a cycle.
RECURSIVE ListReachClosure(_, _)
ListReachClosure(conns, S) ==
    LET T == S \cup {conns[i][2] : i \in {j \in 1..Len(conns) : conns[j][1] \in S}}
    IN IF T = S THEN S ELSE ListReachClosure(conns, T)

ListHasDirectedCycle(conns) ==
    \E i \in 1..Len(conns) :
        conns[i][1] \in ListReachClosure(conns, {conns[i][2]})

\* C2: when validation finds issues (a cycle, or a required input without a
\* connection) a run executes no component, produces no component result
\* and returns a failure to its caller instead of raising.  First conjunct:
\* WorkflowCanvas.execute_workflow; second: WorkflowEngine.execute on a
\* graph with a cycle.
C2_InvalidGraphFailsWithoutRaising ==
    /\ ( /\ last.op = "execute_workflow"
         /\ validate_workflow(components, connections) # <<>> )
       => ( /\ last.executed = <<>>
            /\ last.ret = EmptyDict
            /\ last.dialog = "warning"
            /\ ~last.raised )
    /\ ( /\ last.op = "engine.execute"
         /\ \A i \in 1..Len(last.connections) :
               /\ last.connections[i][1] \in IdsOf(last.components)
               /\ last.connections[i][2] \in IdsOf(last.components)
         /\ ListHasDirectedCycle(last.connections) )
       => ( /\ last.executed = <<>>
            /\ last.ret = EmptyDict
            /\ ~last.raised )

\* C8: every connection check rejects a connection whose source and target
\* are the same component.
C8_ChecksRejectSameComponent ==
    /\ (last.op = "can_connect" /\ last.port1.comp = last.port2.comp) => ~last.ret
    /\ (last.op = "validate_connection" /\ last.self = last.other) => ~last.ret
    /\ (last.op = "can_connect_to" /\ last.self = last.other) => ~last.ret

\* C9: a connection check fails when the source port is not a declared
\* output of the source component or the target port is not a declared
\* input of the target component.
C9_ChecksRejectUndeclaredPorts ==
    /\ ( /\ last.op = "can_connect_to"
         /\ \/ last.my_port \notin DOMAIN metadata_output_ports(last.self.cls)
            \/ last.other_port \notin DOMAIN metadata_input_ports(last.other.cls) )
       => ~last.ret
    /\ ( /\ last.op = "bridge.validate_connection"
         /\ {last.source_id, last.target_id} \subseteq DOMAIN last.pairs
         /\ \/ last.source_port \notin
                  DOMAIN metadata_output_ports(last.pairs[last.source_id].cls)
            \/ last.target_port \notin
                  DOMAIN metadata_input_ports(last.pairs[last.target_id].cls) )
       => ~last.ret

\* C11: both endpoints of every connection belong to components of the
\* component map, in every reachable state; remove_component removes the
\* component and every connection that starts or ends at it, and changes
\* nothing when the component is absent.
C11_EndpointsInComponents ==
    /\ [](\A conn \in Conns(connections) :
             /\ conn.start_port.comp \in IdsOf(components)
             /\ conn.end_port.comp \in IdsOf(components))
    /\ [][\A c \in ComponentIds :
             remove_component(c) =>
                IF c \in IdsOf(components)
                THEN /\ components' = DelId(components, c)
                     /\ \A conn \in Conns(connections') :
                           conn.start_port.comp # c /\ conn.end_port.comp # c
                ELSE UNCHANGED canvasVars]_vars

\* C12: add_component on a component whose id is already a key of the
\* component map fails with a duplicate-component error and leaves the map,
\* and the component registered under that id, unchanged.
C12_DuplicateComponentRejected ==
    ( /\ last.op = "add_component"
      /\ last.component.id \in IdsOf(last.before) )
    => ( /\ last.raised
         /\ components = last.before )

\* C13: validate changes neither the component map nor the connection set
\* nor any other canvas state, and when it returns no issue the graph is
\* executable: the execution-order computation on the same graph returns an
\* order of all components and reports no error.
C13_ValidWorkflowIsExecutable ==
    /\ [][ValidateWorkflow => UNCHANGED canvasVars]_vars
    /\ []( ( /\ last.op = "_get_execution_order"
             /\ validate_workflow(components, connections) = <<>> )
           => ( /\ last.result.status = "ok"
                /\ Len(last.result.order) = Len(components)
                /\ Range(last.result.order) = IdsOf(components) ) )

\* Number of entries of the issue list equal to the given issue.
CountIssue(issues, issue) ==
    Cardinality({i \in 1..Len(issues) : issues[i] = issue})

\* C14: the issue list of validate holds a cycle issue exactly when the
\* connection graph has a directed cycle, exactly one required-input issue
\* for each (component, required input port) that no connection ends at,
\* and no required-input issue for a connected port.  First conjunct:
\* WorkflowCanvas.validate_workflow; second: WorkflowEngine.validate_workflow,
\* whose connections name components only, so its required-input part is
\* stated for graphs without connections.
C14_ValidateIssuesExact ==
    /\ last.op = "validate_workflow"
       => /\ CountIssue(last.issues, [kind |-> "cycle"]) > 0
                <=> HasDirectedCycle(connections)
          /\ \A i \in 1..Len(components) :
                LET c == components[i].id
                IN \A n \in {"input", "output", "metrics", "undeclared"} :
                      CountIssue(last.issues,
                                 [kind |-> "required_input", comp |-> c, port |-> n])
                      = IF /\ n \in FrontendInputPorts(components[i].type)
                           /\ ~\E x \in Conns(connections) :
                                  x.end_port.comp = c /\ x.end_port.name = n
                        THEN 1 ELSE 0
    /\ ( /\ last.op = "engine.validate_workflow"
         /\ \A i \in 1..Len(last.connections) :
               /\ last.connections[i][1] \in IdsOf(last.components)
               /\ last.connections[i][2] \in IdsOf(last.components) )
       => /\ CountIssue(last.issues, [kind |-> "cycle"]) > 0
                <=> ListHasDirectedCycle(last.connections)
          /\ last.connections = <<>> =>
                \A i \in 1..Len(last.components) :
                   \A n \in BackendPortNames :
                      CountIssue(last.issues,
                                 [kind |-> "required_input",
                                  comp |-> last.components[i].id, port |-> n])
                      = IF n \in Range(backend_required_inputs(last.components[i].cls))
                        THEN 1 ELSE 0

\* C15: every call of process() either populates all declared output ports
\* and returns a success result, or changes no output port value, sets
\* status to error and returns an error result that is not None; it never
\* leaves only some of the outputs populated.
C15_ProcessAllOrNothing ==
    [][Process =>
         \/ /\ last'.ret = "success"
            /\ \A n \in DOMAIN metadata_output_ports(backend_component.cls) :
                  /\ n \in DOMAIN backend_component'.output_ports
                  /\ backend_component'.output_ports[n] # "None"
         \/ /\ backend_component'.output_ports = backend_component.output_ports
            /\ backend_component'.status = "error"
            /\ last'.ret \notin {"success", "None"}]_vars

\* C16: the status never goes from error or cleaned to processing unless
\* reset() was called in between: a call of process() on a component whose
\* status is error or cleaned does not assign "processing".
C16_NoProcessingAfterErrorOrCleaned ==
    ( /\ last.op = "process"
      /\ last.before_status \in {"error", "cleaned"} )
    => ~\E i \in 1..Len(last.statuses) : last.statuses[i] = "processing"

\* C17: saving a workflow and loading the saved document reproduces an
\* equivalent graph: after the load the canvas holds the component ids and
\* types of the document and exactly its connections.
C17_SaveLoadRoundTrip ==
    last.op \in {"open_workflow", "load_from_file"}
    => /\ ~last.raised
       /\ last.ret
       /\ workflow_file = save_to_file(components, connections)

\* C18: removing a connection takes it out of the connection set and clears
\* the value bound to its target input port, so that the required-input
\* check of the target reports the port; no other connection and no other
\* bound value changes.
C18_RemoveConnectionClearsTarget ==
    [][\A conn \in Conns(connections) :
          remove_connection(conn) =>
             LET target == conn.end_port.comp
                 still == \E x \in Conns(connections') : x.end_port = conn.end_port
             IN /\ connections' = connections (-) SetToBag({conn})
                /\ ~still => target \notin current_data'
                /\ current_data' \ {target} = current_data \ {target}]_vars

\* C19: from any component state reset() leaves every declared input and
\* output port present and unset, clears the recorded error and the
\* progress and sets status to initialized; a second reset() gives the same
\* state as the first.
C19_ResetRestoresInitialState ==
    [][Reset =>
         LET c == backend_component'
         IN /\ DOMAIN c.input_ports = DOMAIN metadata_input_ports(c.cls)
            /\ DOMAIN c.output_ports = DOMAIN metadata_output_ports(c.cls)
            /\ \A n \in DOMAIN c.input_ports : c.input_ports[n] = "None"
            /\ \A n \in DOMAIN c.output_ports : c.output_ports[n] = "None"
            /\ c.error = NoError
            /\ c.progress = 0
            /\ c.status = "initialized"
            /\ last'.statuses = <<"initialized">>
            /\ reset(c).self = c]_vars

\* C19 witness: reset() was called on a cleaned component, whose port dicts
\* were empty, and every declared port is back.
C19_Witness_ResetAfterCleanup ==
    /\ backend_component # None
    /\ last.op = "reset"
    /\ last.before_status = "cleaned"
    /\ DOMAIN backend_component.input_ports
          = DOMAIN metadata_input_ports(backend_component.cls)
    /\ backend_component.status = "initialized"

\* Required input i of component c is a key of input_ports bound to a value
\* other than None.
RequiredBound(c, i) ==
    LET name == backend_required_inputs(c.cls)[i]
    IN name \in DOMAIN c.input_ports /\ c.input_ports[name] # "None"

AllRequiredBound(c) ==
    \A i \in 1..Len(backend_required_inputs(c.cls)) : RequiredBound(c, i)

\* The first required input, in required-input order, that is missing or
\* unbound.
FirstRequiredUnbound(c) ==
    LET req == backend_required_inputs(c.cls)
        i == CHOOSE k \in 1..Len(req) :
                ~RequiredBound(c, k) /\ \A j \in 1..(k - 1) : RequiredBound(c, j)
    IN req[i]

\* What the claim says of a validate_inputs call on component c that gave
\* result (the component after the call and the value returned).
ValidateInputsAsClaimed(c, result) ==
    /\ result.ret <=> AllRequiredBound(c)
    /\ AllRequiredBound(c) => result.self = c
    /\ ~AllRequiredBound(c) =>
          /\ result.self.status = "error"
          /\ ~result.ret
          /\ result.self.error.port = FirstRequiredUnbound(c)

\* C20: validate_inputs() returns success exactly when every required input
\* name is a declared input port bound to a non-unset value, and then it
\* changes nothing; otherwise it returns failure, sets status error and
\* records a message naming the first required port, in required-input
\* order, that is missing or unbound.
C20_ValidateInputsExact ==
    [][ValidateInputs =>
          ValidateInputsAsClaimed(backend_component,
                                  [self |-> backend_component', ret |-> last'.ret])]_vars

\* C20 amended: the base check, which every validate_inputs() runs first, is
\* exactly as claimed.  validate_inputs() of a component returns success
\* only when every required input is bound, and then changes nothing; with
\* a required input missing or unbound it returns failure, sets status
\* error and names the first such port; with every required input bound to
\* a value that is not a tensor of the right shape it returns failure too,
\* sets status error and records a message about the value, naming no
\* missing port.
C20_ValidateInputsBaseThenValues ==
    [][ValidateInputs =>
          LET c == backend_component
              after == backend_component'
              ret == last'.ret
          IN /\ ValidateInputsAsClaimed(c, base_validate_inputs(c))
             /\ ret => AllRequiredBound(c) /\ after = c
             /\ ~AllRequiredBound(c) =>
                   /\ ~ret
                   /\ after = base_validate_inputs(c).self
                   /\ after.error.port = FirstRequiredUnbound(c)
             /\ (AllRequiredBound(c) /\ ~ret) =>
                   /\ after.status = "error"
                   /\ after.error.port = "None"
                   /\ after.error.msg # NoError.msg
                   /\ after = [c EXCEPT !.status = "error", !.error = after.error]]_vars

\* C20 witness: validate_inputs() failed on a component whose required
\* inputs are all bound.
C20_Witness_BoundButRejected ==
    /\ backend_component # None
    /\ last.op = "validate_inputs"
    /\ last.ret = FALSE
    /\ AllRequiredBound(backend_component)
    /\ backend_component.status = "error"
    /\ backend_component.error.port = "None"

\* C21: set_input(port_name, value) with a port_name that is not a declared
\* input port fails and leaves every bound input value unchanged; with a
\* declared port name it stores the value at exactly that port, returns
\* success and changes no other input port, no output port and not the
\* status.
C21_SetInputStoresOrFails ==
    [][SetInput =>
         LET c == backend_component
             after == backend_component'
             port_name == last'.args[1]
             value == last'.args[2]
         IN /\ last'.op = "set_input"
            /\ port_name \notin DOMAIN metadata_input_ports(c.cls) =>
                  /\ last'.ret = FALSE
                  /\ after.input_ports = c.input_ports
            /\ port_name \in DOMAIN metadata_input_ports(c.cls) =>
                  /\ last'.ret = TRUE
                  /\ port_name \in DOMAIN after.input_ports
                  /\ after.input_ports[port_name] = value
                  /\ DOMAIN after.input_ports = DOMAIN c.input_ports \cup {port_name}
                  /\ \A n \in DOMAIN c.input_ports \ {port_name} :
                        after.input_ports[n] = c.input_ports[n]
                  /\ after.output_ports = c.output_ports
                  /\ after.status = c.status
                  /\ last'.statuses = <<>>]_vars

\* C21 witness: set_input with an undeclared name failed on a component
\* that has an input bound.
C21_Witness_UndeclaredPortRejected ==
    /\ backend_component # None
    /\ last.op = "set_input"
    /\ last.args[1] \notin DOMAIN metadata_input_ports(backend_component.cls)
    /\ last.ret = FALSE
    /\ \E n \in DOMAIN backend_component.input_ports :
          backend_component.input_ports[n] # "None"

\* C22: on an empty graph (no components, no connections) the
\* execution-order computation returns the empty order without reporting a
\* cycle or raising, validate returns no issues, and run returns an empty
\* results map as a successful run.
C22_EmptyGraphIsTriviallyValid ==
    (components = <<>> /\ connections = EmptyBag) =>
       /\ last.op = "_get_execution_order" =>
             last.result = [status |-> "ok", order |-> <<>>]
       /\ last.op = "validate_workflow" => last.issues = <<>>
       /\ last.op = "execute_workflow" =>
             /\ last.ret = EmptyDict
             /\ last.dialog = "none"
             /\ ~last.raised

\* C23: the execution order is a function of the graph construction
\* sequence alone: the same components added in the same order and the same
\* connections always give the same execution order (and the same outcome
\* of the computation), whatever order the runtime iterates its sets in.
C23_ExecutionOrderDeterministic ==
    last.op = "_get_execution_order" =>
       \A rank \in Ranks(IdsOf(components)) :
          _get_execution_order(components, connections, rank) = last.result

\* C24: when a component is executed during a run, every incoming
\* connection has its target input port bound to the value of the
\* connection's source port, the source component was executed earlier in
\* the same run, and no input port is bound that no connection ends at.
C24_InputsComeFromConnections ==
    last.op = "execute_workflow" =>
       \A i \in 1..Len(last.executed) :
          LET c == last.executed[i]
              got == last.inputs[c]
          IN /\ got.status = "ok"
             /\ \A x \in Conns(connections) :
                   x.end_port.comp = c =>
                      /\ x.end_port.name \in got.inputs
                      /\ \E j \in 1..(i - 1) : last.executed[j] = x.start_port.comp
             /\ \A n \in got.inputs :
                   \E x \in Conns(connections) :
                      x.end_port.comp = c /\ x.end_port.name = n

\* C25: cancellation is checked only between components: once it is
\* observed before a component starts, neither that component nor any later
\* one in the order is executed in this run, and every component that
\* started before the cancellation ran to completion and has its result in
\* the returned map.
C25_CancellationBetweenComponents ==
    (last.op = "execute_workflow" /\ last.canceled) =>
       /\ \E i \in 0..(Len(last.order) - 1) :
             last.executed = SubSeq(last.order, 1, i)
       /\ DOMAIN last.ret = Range(last.executed)
       /\ DOMAIN last.status = Range(last.executed)
       /\ \A c \in Range(last.executed) :
             last.status[c] = "success" /\ last.ret[c] = last.status[c]
       /\ last.dialog = "none"
       /\ ~last.raised

\* C25 witness: a run over at least two components was cancelled after the
\* first had run and before the second started.
C25_Witness_CancelledAfterFirst ==
    /\ last.op = "execute_workflow"
    /\ last.canceled
    /\ Len(last.order) >= 2
    /\ Len(last.executed) = 1
    /\ DOMAIN last.ret = {last.executed[1]}

\* The status values of the component contract.
ContractStatuses == {"initialized", "processing", "completed", "error", "cleaned"}

\* C26: in every reachable state of a backend component (after
\* construction and after any sequence of process, validate_inputs,
\* set_input, cleanup and reset) status is one of initialized, processing,
\* completed, error, cleaned, every value a call assigns to status is one
\* of these, and a process call on an initialized component moves
\* initialized -> processing -> completed or error.
C26_StatusInContract ==
    backend_component # None =>
       /\ backend_component.status \in ContractStatuses
       /\ last.op # "none" =>
             \A i \in 1..Len(last.statuses) : last.statuses[i] \in ContractStatuses
       /\ (last.op = "process" /\ last.before_status = "initialized") =>
             last.statuses \in {<<"processing", "completed">>, <<"processing", "error">>}

\* The canvas after the step.
CanvasAfter ==
    [components |-> components', connections |-> connections',
     current_connection |-> current_connection', modified |-> modified',
     created |-> created', current_data |-> current_data',
     undo_stack |-> undo_stack', redo_stack |-> redo_stack']

\* Two canvases hold the same component ids and types and the same
\* connections.
SameGraph(a, b) ==
    /\ Range(a.components) = Range(b.components)
    /\ a.connections = b.connections

\* An editing operation that calls push_undo_state.
RecordsUndoState ==
    \/ \E t \in FrontendTypes : add_component(t)
    \/ clear
    \/ \E sel_comps \in SUBSET IdsOf(components),
          sel_conns \in SUBSET Conns(connections) :
          delete_selected_items(sel_comps, sel_conns)

\* C27: after an editing operation that records an undo state
\* (add_component, delete_selected_items or clear with save_state) one
\* undo() returns the canvas to the state before that operation, with the
\* same component ids and types and the same set of connections; a
\* following redo() returns it to the state after the operation.
C27_UndoRedoRoundTrip ==
    [][RecordsUndoState =>
          /\ SameGraph(undo(CanvasAfter), Canvas)
          /\ SameGraph(redo(undo(CanvasAfter)), CanvasAfter)]_vars

\* A step that changes the graph: a component or a connection is added or
\* removed.
GraphChange ==
    \/ \E t \in FrontendTypes : add_component(t)
    \/ \E c \in IdsOf(components) : remove_component(c)
    \/ \E conn \in Conns(connections) : remove_connection(conn)
    \/ \E p \in CanvasPorts(components) : finish_connection(p)

\* C28: the modified flag is False immediately after a successful save, and
\* every graph change (add_component, remove_component, add_connection /
\* finish_connection, remove_connection) leaves it True, so that every
\* state reached from the last save by at least one graph change has the
\* flag set.
C28_ModifiedAfterGraphChange ==
    /\ [](last.op = "save_workflow" => ~modified)
    /\ [][GraphChange => modified']_vars

\* C29: in every reachable state of a backend component the recorded
\* error and the status agree: the recorded error is non-empty exactly when
\* status is error, so a component whose status is completed, processing
\* or initialized never reports a stale error from an earlier failed call.
C29_ErrorAgreesWithStatus ==
    backend_component # None =>
       (backend_component.error # NoError <=> backend_component.status = "error")

\* C30: every call of process() on a backend component returns with
\* status completed or error: whichever step fails (input validation,
\* computation, writing an output), the component is not left in
\* processing or in an intermediate progress status, and a call that
\* returns a success result leaves status completed.
C30_ProcessEndsCompletedOrError ==
    (backend_component # None /\ last.op = "process") =>
       /\ backend_component.status \in {"completed", "error"}
       /\ last.statuses # <<>>
       /\ last.statuses[Len(last.statuses)] = backend_component.status
       /\ last.ret = "success" <=> backend_component.status = "completed"

\* C30 witness: process() of an OutputComponent failed while saving the
\* results, after the intermediate statuses, and ended in error.
C30_Witness_FailedWhileSaving ==
    /\ backend_component # None
    /\ last.op = "process"
    /\ \E i \in 1..Len(last.statuses) : last.statuses[i] = "Saving prediction results"
    /\ last.ret = "None"
    /\ backend_component.status = "error"

====
